---- MODULE Spec2Model ----
(***************************************************************************)
(* A model of ipcalc-go (package main): the address codec (IPv4ToInt,      *)
(* ParseMask, Dots), the network descriptor (NewNetwork) and the subnet    *)
(* partitioner (getSubnetCount, CreateSubnets), and the command line       *)
(* program (main) that runs them.                                          *)
(*                                                                         *)
(* Representation.  TLC's integers are 32-bit signed, so a Go uint32 is    *)
(* kept as a record [hi, lo] of two 16-bit halves (value = hi*65536 + lo)  *)
(* and a Go uint64 as a tuple of four 16-bit limbs, most significant       *)
(* first.  All arithmetic on them wraps exactly as Go's unsigned           *)
(* arithmetic does.  A Go string is a sequence of one-character strings,   *)
(* a Go byte is a number in 0..255, a Go error is the string of its        *)
(* message and the nil error is Nil.                                       *)
(***************************************************************************)
EXTENDS Integers, Sequences, FiniteSets, TLC

VARIABLES
  pc,          \* "start", or the function that has returned
  addrString,  \* the text given to IPv4ToInt
  maskString,  \* the text given to ParseMask
  address,     \* the uint32 given to NewNetwork, CreateSubnets and Dots
  mask,        \* the parent mask given to NewNetwork and CreateSubnets
  subnetMask,  \* the child mask given to CreateSubnets
  octets,      \* the four octets addrString was written from, if it was
  ret,         \* what the function returned
  cmdline,     \* os.Args[1:], the words of the command line
  flags,       \* the values of the flags -e and -c after flag.Parse
  args,        \* flag.Args(), the positional arguments
  stdout,      \* the lines written to standard output so far
  exitCode     \* the exit status of the process, NotExited while it runs

cliVars == <<cmdline, flags, args, stdout, exitCode>>

vars ==
  <<pc, addrString, maskString, address, mask, subnetMask, octets, ret,
    cmdline, flags, args, stdout, exitCode>>

----------------------------------------------------------------------------
(* Bounds of the model.                                                    *)

\* CreateSubnets is applied only when subnetPrefix - prefix <= MaxPrefixDiff,
\* so a list has at most 2^MaxPrefixDiff entries.
MaxPrefixDiff == 3

\* The free-form address texts have at most MaxTokens dot-separated tokens.
MaxTokens == 5

\* The mask texts "/N" are written for N in 0..MaxPrefixText.
MaxPrefixText == 40

----------------------------------------------------------------------------
(* Errors.                                                                 *)

Nil == "<nil>"
ErrOutOfRange == "Error: Value is out of range"
ErrInvalidSyntax == "Error: Value has invalid syntax"
ErrPrefixTooSmall == "Subnet prefix must be larger than the prefix"
ErrMaskParse == "Error when parsing mask"

----------------------------------------------------------------------------
(* uint32 arithmetic on [hi, lo] halves.                                   *)

U32(h, l) == [hi |-> h, lo |-> l]

\* binary.BigEndian.Uint32(b): b[0]<<24 | b[1]<<16 | b[2]<<8 | b[3].
\* Sequences are 1-based, so Go's b[0] is b[1] here.
BigEndianUint32(b) == U32(b[1] * 256 + b[2], b[3] * 256 + b[4])

\* binary.BigEndian.PutUint32(bytes, v): the four bytes of v, high first.
BigEndianPutUint32(v) ==
  <<v.hi \div 256, v.hi % 256, v.lo \div 256, v.lo % 256>>

U32Add(a, b) ==
  LET l == a.lo + b.lo
  IN  U32((a.hi + b.hi + (l \div 65536)) % 65536, l % 65536)

U32Sub(a, b) ==
  LET l == a.lo - b.lo
      borrow == IF l < 0 THEN 1 ELSE 0
  IN  U32((a.hi - b.hi - borrow + 131072) % 65536, (l + 65536) % 65536)

RECURSIVE BitAnd(_, _, _)
BitAnd(x, y, n) ==
  IF n = 0 THEN 0
  ELSE (x % 2) * (y % 2) + 2 * BitAnd(x \div 2, y \div 2, n - 1)

U32And(a, b) == U32(BitAnd(a.hi, b.hi, 16), BitAnd(a.lo, b.lo, 16))

U32Not(a) == U32(65535 - a.hi, 65535 - a.lo)

U32Less(a, b) == a.hi < b.hi \/ (a.hi = b.hi /\ a.lo < b.lo)

U32Leq(a, b) == a = b \/ U32Less(a, b)

RECURSIVE PopCount(_, _)
PopCount(x, n) ==
  IF n = 0 THEN 0 ELSE (x % 2) + PopCount(x \div 2, n - 1)

\* bits.OnesCount32
OnesCount32(a) == PopCount(a.hi, 16) + PopCount(a.lo, 16)

----------------------------------------------------------------------------
(* Network descriptor.                                                     *)

\* NewNetwork with the broadcast taken from the address instead of the network.
NewNetworkBroadcastFromAddress(address_, mask_) ==
  LET ip_network == U32And(address_, mask_)
      ip_hostMin == U32Add(ip_network, U32(0, 1))
      ip_broadcast == U32Add(address_, U32Not(mask_))
      ip_hostMax == U32Sub(ip_broadcast, U32(0, 1))
      ip_hostCount == U32Sub(ip_broadcast, ip_hostMin)
  IN  [address |-> address_, mask |-> mask_, network |-> ip_network,
       hostMin |-> ip_hostMin, hostMax |-> ip_hostMax,
       broadcast |-> ip_broadcast, hostsPerNet |-> ip_hostCount]

NewNetwork(address_, mask_) ==
  LET ip_address == address_
      ip_mask == mask_
      ip_network == U32And(ip_address, ip_mask)
      ip_hostMin == U32Add(ip_network, U32(0, 1))
      ip_broadcast == U32Add(ip_network, U32Not(ip_mask))
      ip_hostMax == U32Sub(ip_broadcast, U32(0, 1))
      ip_hostCount == U32Sub(ip_broadcast, ip_hostMin)
  IN  [address |-> ip_address, mask |-> ip_mask, network |-> ip_network,
       hostMin |-> ip_hostMin, hostMax |-> ip_hostMax,
       broadcast |-> ip_broadcast, hostsPerNet |-> ip_hostCount]

----------------------------------------------------------------------------
(* Subnet partitioner.                                                     *)

\* math.Exp2(32-float64(prefix)) / math.Exp2(32-float64(subnetPrefix)):
\* both operands are float64 powers of two with exponents in 0..32, and the
\* quotient of two such powers is the exact power of two whose exponent is
\* the difference of the exponents; int() of it is that integer.
Exp2Quotient(e1, e2) == 2 ^ (e1 - e2)

\* getSubnetCount returning one entry too few.
getSubnetCountOffByOne(prefix, subnetPrefix) ==
  IF prefix >= subnetPrefix
  THEN [count |-> 0, err |-> ErrPrefixTooSmall]
  ELSE [count |-> Exp2Quotient(32 - prefix, 32 - subnetPrefix) - 1,
        err |-> Nil]

\* getSubnetCount with > in place of >=.
getSubnetCountStrict(prefix, subnetPrefix) ==
  IF prefix > subnetPrefix
  THEN [count |-> 0, err |-> ErrPrefixTooSmall]
  ELSE [count |-> Exp2Quotient(32 - prefix, 32 - subnetPrefix), err |-> Nil]

getSubnetCount(prefix, subnetPrefix) ==
  IF prefix >= subnetPrefix
  THEN [count |-> 0, err |-> ErrPrefixTooSmall]
  ELSE [count |-> Exp2Quotient(32 - prefix, 32 - subnetPrefix), err |-> Nil]

\* A Go slice: nil, or a (possibly empty) sequence of elements.
NilSlice == [isNil |-> TRUE, elems |-> <<>>]
Slice(s) == [isNil |-> FALSE, elems |-> s]

\* The next address without the increment.
NextAddressSame(previous) == previous.broadcast

\* address = subnets[i-1].broadcast.Addr + 1
NextAddress(previous) == U32Add(previous.broadcast, U32(0, 1))

\* The loop of CreateSubnets from iteration i on; subnets holds the entries
\* built so far (Go's subnets[i-1] is subnets[i] here).
RECURSIVE SubnetLoop(_, _, _, _, _)
SubnetLoop(subnets, address_, subnetMask_, i, subnetCount) ==
  IF i >= subnetCount THEN subnets
  ELSE LET a == IF i # 0 THEN NextAddress(subnets[i]) ELSE address_
       IN  SubnetLoop(Append(subnets, NewNetwork(a, subnetMask_)),
                      a, subnetMask_, i + 1, subnetCount)

CreateSubnets(address_, mask_, subnetMask_) ==
  LET r == getSubnetCount(OnesCount32(mask_), OnesCount32(subnetMask_))
  IN  IF r.err # Nil
      THEN [subnets |-> NilSlice, err |-> r.err]
      ELSE [subnets |-> Slice(SubnetLoop(<<>>, address_, subnetMask_, 0,
                                         r.count)),
            err |-> Nil]

----------------------------------------------------------------------------
(* Strings and decimal numbers.                                            *)

DigitChars == <<"0", "1", "2", "3", "4", "5", "6", "7", "8", "9">>

IsDigit(c) == \E d \in 1..10 : DigitChars[d] = c

DigitValue(c) == (CHOOSE d \in 1..10 : DigitChars[d] = c) - 1

\* strings.Split(s, "."): the pieces of s between its dots, from position
\* from on; cur is the piece being read.
RECURSIVE SplitFrom(_, _, _)
SplitFrom(s, from, cur) ==
  IF from > Len(s) THEN <<cur>>
  ELSE IF s[from] = "." THEN <<cur>> \o SplitFrom(s, from + 1, <<>>)
  ELSE SplitFrom(s, from + 1, Append(cur, s[from]))

Split(s) == SplitFrom(s, 1, <<>>)

\* A uint64 is <<w3, w2, w1, w0>>, four 16-bit limbs, w3 the most significant.
U64Zero == <<0, 0, 0, 0>>
U64Max == <<65535, 65535, 65535, 65535>>

\* n*10 + d on a uint64, with the carry out of the top limb.
MulAdd10(n, d) ==
  LET t0 == n[4] * 10 + d
      t1 == n[3] * 10 + (t0 \div 65536)
      t2 == n[2] * 10 + (t1 \div 65536)
      t3 == n[1] * 10 + (t2 \div 65536)
  IN  [val |-> <<t3 % 65536, t2 % 65536, t1 % 65536, t0 % 65536>>,
       carry |-> t3 \div 65536]

\* val > 255 for a uint64 val.
U64Above255(n) == n[1] # 0 \/ n[2] # 0 \/ n[3] # 0 \/ n[4] > 255

\* The loop of strconv.ParseUint(s, 10, 64) from position i on with the
\* value n read so far: a character that is no digit ends it with
\* (0, ErrSyntax); a value that no longer fits 64 bits ends it with
\* (MaxUint64, ErrRange).
RECURSIVE ParseUintLoop(_, _, _)
ParseUintLoop(s, i, n) ==
  IF i > Len(s) THEN [val |-> n, err |-> Nil]
  ELSE IF ~IsDigit(s[i]) THEN [val |-> U64Zero, err |-> "ErrSyntax"]
  ELSE LET m == MulAdd10(n, DigitValue(s[i]))
       IN  IF m.carry # 0 THEN [val |-> U64Max, err |-> "ErrRange"]
           ELSE ParseUintLoop(s, i + 1, m.val)

\* strconv.ParseUint(s, 10, 0) on a build whose int has 64 bits, and
\* strconv.ParseUint(s, 10, 64); err is the error the returned *NumError
\* wraps.
ParseUint(s) ==
  IF s = <<>> THEN [val |-> U64Zero, err |-> "ErrSyntax"]
  ELSE ParseUintLoop(s, 1, U64Zero)

----------------------------------------------------------------------------
(* Address codec: text to integer.                                         *)

convertStrconvError(err) ==
  CASE err = "ErrRange" -> ErrOutOfRange
    [] err = "ErrSyntax" -> ErrInvalidSyntax
    [] OTHER -> err

Return(v, e) == [kind |-> "return", val |-> v, err |-> e]

\* A run-time panic: the function returns nothing.
Panic(msg) == [kind |-> "panic", val |-> U32(0, 0), err |-> msg]

\* The loop of IPv4ToInt over splitAddr from token i on; bytes holds the
\* octets appended so far.  After the loop binary.BigEndian.Uint32 reads
\* bytes[0..3]: it panics on fewer than four bytes and ignores any others.
RECURSIVE IPv4ToIntLoop(_, _, _)
IPv4ToIntLoop(splitAddr, i, bytes) ==
  IF i > Len(splitAddr)
  THEN IF Len(bytes) < 4
       THEN Panic("runtime error: index out of range")
       ELSE Return(BigEndianUint32(bytes), Nil)
  ELSE LET r == ParseUint(splitAddr[i])
       IN  IF U64Above255(r.val) THEN Return(U32(0, 0), ErrOutOfRange)
           ELSE IF r.err # Nil
                THEN Return(U32(0, 0), convertStrconvError(r.err))
                ELSE IPv4ToIntLoop(splitAddr, i + 1,
                                   Append(bytes, r.val[4] % 256))

IPv4ToInt(addrString_) == IPv4ToIntLoop(Split(addrString_), 1, <<>>)

----------------------------------------------------------------------------
(* Address codec: mask text to integer.                                    *)

\* fmt's SkipSpace: the first position at or after i that holds no space.
RECURSIVE SkipSpace(_, _)
SkipSpace(s, i) ==
  IF i <= Len(s) /\ s[i] = " " THEN SkipSpace(s, i + 1) ELSE i

\* fmt's scanNumber accepts the decimal digits and the underscore.
RECURSIVE NumberEnd(_, _)
NumberEnd(s, i) ==
  IF i <= Len(s) /\ (IsDigit(s[i]) \/ s[i] = "_")
  THEN NumberEnd(s, i + 1) ELSE i

\* Whether a uint64 fits an unsigned integer of 8 or of 32 bits.
FitsBits(n, bitSize) ==
  /\ n[1] = 0
  /\ n[2] = 0
  /\ bitSize = 8 => (n[3] = 0 /\ n[4] < 256)

\* fmt's scanUint for the verb %d at position i of the input: spaces are
\* skipped, then a run of digits is read, parsed by strconv.ParseUint and
\* checked against the operand's width.  next is the position after the run.
ScanUint(s, i, bitSize) ==
  LET b == SkipSpace(s, i)
      e == NumberEnd(s, b)
      r == ParseUint(SubSeq(s, b, e - 1))
  IN  IF b > Len(s)
      THEN [err |-> "unexpected EOF", val |-> U64Zero, next |-> b]
      ELSE IF e = b
      THEN [err |-> "expected integer", val |-> U64Zero, next |-> b]
      ELSE IF r.err # Nil
      THEN [err |-> r.err, val |-> U64Zero, next |-> e]
      ELSE IF ~FitsBits(r.val, bitSize)
      THEN [err |-> "unsigned integer overflow", val |-> U64Zero, next |-> e]
      ELSE [err |-> Nil, val |-> r.val, next |-> e]

\* fmt.Sscanf(mask, "/%d", &prefix) with prefix a uint32: the number of
\* operands stored, the error, and the prefix.  Input after the number is
\* not read.
SscanfPrefix(s) ==
  IF Len(s) = 0 \/ s[1] # "/"
  THEN [count |-> 0, err |-> "input does not match format",
        prefix |-> U32(0, 0)]
  ELSE LET r == ScanUint(s, 2, 32)
       IN  IF r.err # Nil
           THEN [count |-> 0, err |-> r.err, prefix |-> U32(0, 0)]
           ELSE [count |-> 1, err |-> Nil, prefix |-> U32(r.val[3], r.val[4])]

\* fmt.Sscanf(mask, "%d.%d.%d.%d", &octets[0], ..., &octets[3]) with byte
\* operands, from operand k on at position i; octets_ starts as make([]byte,
\* 4) and holds the operands stored so far.
RECURSIVE SscanfOctets(_, _, _, _)
SscanfOctets(s, i, k, octets_) ==
  LET r == ScanUint(s, i, 8)
      stored == [octets_ EXCEPT ![k] = r.val[4]]
  IN  IF r.err # Nil
      THEN [count |-> k - 1, err |-> r.err, octets |-> octets_]
      ELSE IF k = 4
      THEN [count |-> 4, err |-> Nil, octets |-> stored]
      ELSE IF r.next > Len(s) \/ s[r.next] # "."
      THEN [count |-> k, err |-> "input does not match format",
            octets |-> stored]
      ELSE SscanfOctets(s, r.next + 1, k + 1, stored)

\* uint32(math.Exp2(32) - math.Exp2(float64(32-prefix))), where 32-prefix
\* is computed in uint32 and wraps around for prefix > 32.  For
\* 32-prefix = k in 0..32 the float64 difference is the integer 2^32 - 2^k
\* exactly.  Otherwise the difference is negative (or -Inf), which uint32
\* cannot represent: Go leaves the converted value implementation-dependent.
ImplementationDependentUint32 ==
  { U32(0, 0), U32(32768, 0), U32(65535, 65535) }

\* prefixToMask without the subtraction from 32.
prefixToMaskOfPrefix(prefix) ==
  LET k == prefix
  IN  IF k.hi = 0 /\ k.lo <= 32
      THEN { IF k.lo >= 16 THEN U32((65536 - 2 ^ (k.lo - 16)) % 65536, 0)
             ELSE U32(65535, 65536 - 2 ^ k.lo) }
      ELSE ImplementationDependentUint32

\* The set of values prefixToMask(prefix) can return.
prefixToMask(prefix) ==
  LET k == U32Sub(U32(0, 32), prefix)
  IN  IF k.hi = 0 /\ k.lo <= 32
      THEN { IF k.lo >= 16 THEN U32((65536 - 2 ^ (k.lo - 16)) % 65536, 0)
             ELSE U32(65535, 65536 - 2 ^ k.lo) }
      ELSE ImplementationDependentUint32

\* The set of results ParseMask(mask) can return.
ParseMask(mask_) ==
  IF Len(mask_) <= 1 THEN { Return(U32(0, 0), ErrMaskParse) }
  ELSE IF mask_[1] = "/"
  THEN LET sc == SscanfPrefix(mask_)
       IN  IF sc.count # 1 THEN { Return(U32(0, 0), ErrMaskParse) }
           ELSE IF sc.err # Nil THEN { Return(U32(0, 0), sc.err) }
           ELSE { Return(v, Nil) : v \in prefixToMask(sc.prefix) }
  ELSE LET sc == SscanfOctets(mask_, 1, 1, <<0, 0, 0, 0>>)
       IN  IF sc.count # 4 THEN { Return(U32(0, 0), ErrMaskParse) }
           ELSE IF sc.err # Nil THEN { Return(U32(0, 0), sc.err) }
           ELSE { Return(BigEndianUint32(sc.octets), Nil) }

----------------------------------------------------------------------------
(* Address codec: integer to text.                                         *)

\* The decimal text of a number, as fmt's %v writes a byte.
RECURSIVE FormatUint(_)
FormatUint(n) ==
  IF n < 10 THEN <<DigitChars[n + 1]>>
  ELSE Append(FormatUint(n \div 10), DigitChars[(n % 10) + 1])

\* Dots with the four bytes in little-endian order.
DotsLittleEndian(addr) ==
  LET bytes == BigEndianPutUint32(addr)
  IN  FormatUint(bytes[4]) \o <<".">> \o FormatUint(bytes[3]) \o <<".">>
        \o FormatUint(bytes[2]) \o <<".">> \o FormatUint(bytes[1])

\* (i *IPv4Address) Dots() for i.Addr = addr
Dots(addr) ==
  LET bytes == BigEndianPutUint32(addr)
  IN  FormatUint(bytes[1]) \o <<".">> \o FormatUint(bytes[2]) \o <<".">>
        \o FormatUint(bytes[3]) \o <<".">> \o FormatUint(bytes[4])

----------------------------------------------------------------------------
(* Reports: the lines Print writes.                                        *)

\* The eight binary digits of a byte, as fmt's %08b writes it.
FormatBinary8(b) ==
  [i \in 1..8 |-> DigitChars[((b \div (2 ^ (8 - i))) % 2) + 1]]

\* (i *IPv4Address) Bits() for i.Addr = addr
Bits(addr) ==
  LET bytes == BigEndianPutUint32(addr)
  IN  FormatBinary8(bytes[1]) \o <<".">> \o FormatBinary8(bytes[2])
        \o <<".">> \o FormatBinary8(bytes[3]) \o <<".">>
        \o FormatBinary8(bytes[4])

\* The decimal text of a uint32, as fmt's %d writes it.
RECURSIVE FormatU32(_)
FormatU32(v) ==
  LET low == (v.hi % 10) * 65536 + v.lo
      q == U32(v.hi \div 10, low \div 10)
  IN  IF v.hi = 0 /\ v.lo < 10 THEN <<DigitChars[v.lo + 1]>>
      ELSE Append(FormatU32(q), DigitChars[(low % 10) + 1])

\* strconv.ParseUint(ip, 2, 0) of eight binary digits.
RECURSIVE BinaryValue(_)
BinaryValue(t) ==
  IF t = <<>> THEN 0
  ELSE 2 * BinaryValue(SubSeq(t, 1, Len(t) - 1)) + DigitValue(t[Len(t)])

GetClass(addr) ==
  LET ip == SubSeq(Bits(addr), 1, 8)
      res == BinaryValue(ip)
  IN  CASE res >= 0 /\ res <= 127 -> "A"
        [] res >= 128 /\ res <= 191 -> "B"
        [] res >= 192 /\ res <= 223 -> "C"
        [] res >= 224 /\ res <= 239 -> "D"
        [] res >= 240 /\ res <= 255 -> "E"
        [] OTHER -> "ERROR"

\* A line of output is the list of its tab-separated fields, together with
\* the call that wrote it: kind is "address" for a line written by
\* IPv4Address.Print and "text" for any other line; report is 0 for the
\* report of the base network, i for the report of the i-th subnet, and
\* MainLine for a line main writes itself.
MainLine == "main"
Line(kind_, report_, fields_) ==
  [kind |-> kind_, report |-> report_, fields |-> fields_]

\* (i *IPv4Address) Print(writer, extended): "%s:\t%s\t%s\n" or "%s:\t%s\n".
\* description stands for the label with its colon.
IPv4AddressPrint(description, addr, report, extended) ==
  IF extended
  THEN Line("address", report, <<description, Dots(addr), Bits(addr)>>)
  ELSE Line("address", report, <<description, Dots(addr)>>)

\* (n *Network) Print(writer, printDescription, extended, printClass)
NetworkPrint(n, report, printDescription, extended, printClass) ==
  (IF printDescription
   THEN << IPv4AddressPrint("Address:", n.address, report, extended),
           IPv4AddressPrint("Netmask:", n.mask, report, extended),
           Line("text", report,
                <<"CIDR Prefix:",
                  <<"/">> \o FormatUint(OnesCount32(n.mask))>>) >>
   ELSE <<>>)
  \o << IPv4AddressPrint("Network:", n.network, report, extended) >>
  \o (IF printClass
      THEN << Line("text", report, <<"CLASS", GetClass(n.address)>>) >>
      ELSE <<>>)
  \o << IPv4AddressPrint("HostMin:", n.hostMin, report, extended),
        IPv4AddressPrint("HostMax:", n.hostMax, report, extended),
        IPv4AddressPrint("Broadcast:", n.broadcast, report, extended),
        Line("text", report, <<"Hosts/Net:", FormatU32(n.hostsPerNet)>>) >>

----------------------------------------------------------------------------
(* The command line program.                                               *)

\* flag.Parse over the words of the command line from word i on, with the
\* flags -e and -c defined as booleans (default false).  Parsing stops at
\* the first word that is no flag, or after "--".  A flag that is not
\* defined, or one with bad syntax, makes flag.Parse exit with status 2;
\* -h and -help make it exit with status 0 or 2, depending on the version
\* of the flag package.  Flags written with "=" are not among the inputs.
RECURSIVE FlagParseFrom(_, _, _)
FlagParseFrom(words, i, f) ==
  IF i > Len(words) THEN [exits |-> {}, flags |-> f, args |-> <<>>]
  ELSE LET w == words[i]
           minuses == IF Len(w) >= 2 /\ w[2] = "-" THEN 2 ELSE 1
           name == SubSeq(w, minuses + 1, Len(w))
           rest == SubSeq(words, i, Len(words))
       IN  IF Len(w) < 2 \/ w[1] # "-"
           THEN [exits |-> {}, flags |-> f, args |-> rest]
           ELSE IF w = <<"-", "-">>
           THEN [exits |-> {}, flags |-> f, args |-> Tail(rest)]
           ELSE IF name = <<>> \/ name[1] = "-" \/ name[1] = "="
           THEN [exits |-> {2}, flags |-> f, args |-> <<>>]
           ELSE IF name = <<"e">>
           THEN FlagParseFrom(words, i + 1, [f EXCEPT !.e = TRUE])
           ELSE IF name = <<"c">>
           THEN FlagParseFrom(words, i + 1, [f EXCEPT !.c = TRUE])
           ELSE IF name = <<"h">> \/ name = <<"h", "e", "l", "p">>
           THEN [exits |-> {0, 2}, flags |-> f, args |-> <<>>]
           ELSE [exits |-> {2}, flags |-> f, args |-> <<>>]

FlagParse(words) == FlagParseFrom(words, 1, [e |-> FALSE, c |-> FALSE])

\* checkError(err) for err # nil: fmt.Println(err), then os.Exit(1).
CheckErrorExits(err) ==
  /\ stdout' = Append(stdout, Line("text", MainLine, <<err>>))
  /\ exitCode' = 1
  /\ pc' = "exited"

\* flag.Parse() and args := flag.Args()
MainFlagParse ==
  /\ pc = "main"
  /\ LET r == FlagParse(cmdline)
     IN  IF r.exits # {}
         THEN /\ exitCode' \in r.exits
              /\ pc' = "exited"
              /\ UNCHANGED <<flags, args>>
         ELSE /\ flags' = r.flags
              /\ args' = r.args
              /\ pc' = "argCount"
              /\ UNCHANGED exitCode
  /\ UNCHANGED <<addrString, maskString, address, mask, subnetMask, octets,
                 ret, cmdline, stdout>>

\* if argCount < 2 || argCount > 3 { checkError(errors.New(...)) }
MainArgCount ==
  /\ pc = "argCount"
  /\ LET argCount == Len(args)
     IN  IF argCount < 2 \/ argCount > 3
         THEN CheckErrorExits("Need at least 2 arguments")
         ELSE /\ pc' = "IPv4ToInt"
              /\ UNCHANGED <<stdout, exitCode>>
  /\ UNCHANGED <<addrString, maskString, address, mask, subnetMask, octets,
                 ret, cmdline, flags, args>>

\* address, err := IPv4ToInt(args[0]); checkError(err).  A panic in
\* IPv4ToInt ends the process with the run-time's exit status 2.
MainIPv4ToInt ==
  /\ pc = "IPv4ToInt"
  /\ addrString' = args[1]
  /\ LET r == IPv4ToInt(args[1])
     IN  IF r.kind = "panic"
         THEN /\ exitCode' = 2
              /\ pc' = "exited"
              /\ UNCHANGED <<address, stdout>>
         ELSE IF r.err # Nil
         THEN /\ CheckErrorExits(r.err)
              /\ UNCHANGED address
         ELSE /\ address' = r.val
              /\ pc' = "ParseMask"
              /\ UNCHANGED <<stdout, exitCode>>
  /\ UNCHANGED <<maskString, mask, subnetMask, octets, ret, cmdline, flags,
                 args>>

\* mask, err := ParseMask(args[1]); checkError(err)
MainParseMask ==
  /\ pc = "ParseMask"
  /\ maskString' = args[2]
  /\ \E r \in ParseMask(args[2]) :
       IF r.err # Nil
       THEN /\ CheckErrorExits(r.err)
            /\ UNCHANGED mask
       ELSE /\ mask' = r.val
            /\ pc' = "Print"
            /\ UNCHANGED <<stdout, exitCode>>
  /\ UNCHANGED <<addrString, address, subnetMask, octets, ret, cmdline,
                 flags, args>>

\* network := NewNetwork(address, mask)
\* network.Print(os.Stdout, true, *printExtended, *printClass)
\* and, with two arguments, the return from main.
MainPrint ==
  /\ pc = "Print"
  /\ stdout' = stdout \o NetworkPrint(NewNetwork(address, mask), 0, TRUE,
                                      flags.e, flags.c)
  /\ IF Len(args) = 3
     THEN pc' = "ParseSubnetMask" /\ UNCHANGED exitCode
     ELSE pc' = "exited" /\ exitCode' = 0
  /\ UNCHANGED <<addrString, maskString, address, mask, subnetMask, octets,
                 ret, cmdline, flags, args>>

\* subnetMask, err := ParseMask(args[2]); checkError(err)
MainParseSubnetMask ==
  /\ pc = "ParseSubnetMask"
  /\ \E r \in ParseMask(args[3]) :
       IF r.err # Nil
       THEN /\ CheckErrorExits(r.err)
            /\ UNCHANGED subnetMask
       ELSE /\ subnetMask' = r.val
            /\ pc' = "CreateSubnets"
            /\ UNCHANGED <<stdout, exitCode>>
  /\ UNCHANGED <<addrString, maskString, address, mask, octets, ret,
                 cmdline, flags, args>>

\* subnets, err := CreateSubnets(address, mask, subnetMask); checkError(err)
MainCreateSubnets ==
  /\ pc = "CreateSubnets"
  /\ OnesCount32(subnetMask) - OnesCount32(mask) <= MaxPrefixDiff
  /\ LET r == CreateSubnets(address, mask, subnetMask)
     IN  IF r.err # Nil
         THEN /\ CheckErrorExits(r.err)
              /\ UNCHANGED ret
         ELSE /\ ret' = r
              /\ pc' = "PrintSubnets"
              /\ UNCHANGED <<stdout, exitCode>>
  /\ UNCHANGED <<addrString, maskString, address, mask, subnetMask, octets,
                 cmdline, flags, args>>

\* The lines of the loop over subnets from subnet i on: the ordinal, the
\* report subnet.Print(os.Stdout, false, extended, false), an empty line.
RECURSIVE SubnetReports(_, _, _)
SubnetReports(subnets, i, extended) ==
  IF i > Len(subnets) THEN <<>>
  ELSE << Line("text", MainLine, <<Append(FormatUint(i), ".")>>) >>
       \o NetworkPrint(subnets[i], i, FALSE, extended, FALSE)
       \o << Line("text", MainLine, <<>>) >>
       \o SubnetReports(subnets, i + 1, extended)

\* The lines main writes after CreateSubnets has returned subnets; the
\* local variable extended of main is true.
MainSubnetBlock(subnets) ==
  LET extended == TRUE
  IN  << Line("text", MainLine, <<>>),
         Line("text", MainLine,
              <<"Subnets after transition from", args[2], "to", args[3]>>),
         Line("text", MainLine, <<>>),
         Line("text", MainLine, <<"Netmask:", Dots(subnets[1].mask)>>),
         Line("text", MainLine, <<"CIDR Prefix:", args[3]>>) >>
      \o SubnetReports(subnets, 1, extended)

\* The output of the subnets and the return from main.
MainPrintSubnets ==
  /\ pc = "PrintSubnets"
  /\ stdout' = stdout \o MainSubnetBlock(ret.subnets.elems)
  /\ pc' = "exited"
  /\ exitCode' = 0
  /\ UNCHANGED <<addrString, maskString, address, mask, subnetMask, octets,
                 ret, cmdline, flags, args>>

----------------------------------------------------------------------------
(* Inputs of the descriptor and partitioner.                               *)

\* The value of the bits b[from..to] (most significant first).
RECURSIVE BitsValue(_, _, _)
BitsValue(b, from, to) ==
  IF from > to THEN 0 ELSE b[to] + 2 * BitsValue(b, from, to - 1)

\* The 32-bit value whose top n bits are 1 and whose other bits are 0.
TopBitsMask(n) ==
  LET b == [i \in 1..32 |-> IF i <= n THEN 1 ELSE 0]
  IN  U32(BitsValue(b, 1, 16), BitsValue(b, 17, 32))

Octets(a, b, c, d) == BigEndianUint32(<<a, b, c, d>>)

Addresses ==
  { Octets(192, 168, 0, 1), Octets(192, 168, 0, 200), Octets(10, 0, 0, 0),
    Octets(0, 0, 0, 0), Octets(255, 255, 255, 255),
    Octets(255, 255, 255, 200), Octets(172, 16, 5, 77),
    Octets(127, 255, 255, 255) }

ContiguousMasks == { TopBitsMask(n) : n \in 0..32 }

NonContiguousMasks ==
  { Octets(0, 255, 0, 0), Octets(255, 0, 255, 0), Octets(255, 255, 255, 253),
    Octets(255, 255, 0, 255) }

Masks == ContiguousMasks \cup NonContiguousMasks

NoString == <<>>
NoResult == [none |-> TRUE]

\* The exit status of a process that has not exited.
NotExited == "running"

\* No command line program is running.
NoProcess ==
  /\ cmdline = <<>>
  /\ flags = [e |-> FALSE, c |-> FALSE]
  /\ args = <<>>
  /\ stdout = <<>>
  /\ exitCode = NotExited

----------------------------------------------------------------------------
(* The descriptor and the partitioner applied to every input.              *)

InitNet ==
  /\ pc = "start"
  /\ address \in Addresses
  /\ mask \in Masks
  /\ subnetMask \in Masks
  /\ addrString = NoString
  /\ maskString = NoString
  /\ octets = <<>>
  /\ ret = NoResult
  /\ NoProcess

CallNewNetwork ==
  /\ pc = "start"
  /\ pc' = "NewNetwork"
  /\ ret' = [network |-> NewNetwork(address, mask)]
  /\ UNCHANGED <<addrString, maskString, address, mask, subnetMask, octets>>
  /\ UNCHANGED cliVars

CallCreateSubnets ==
  /\ pc = "start"
  /\ OnesCount32(subnetMask) - OnesCount32(mask) <= MaxPrefixDiff
  /\ pc' = "CreateSubnets"
  /\ ret' = CreateSubnets(address, mask, subnetMask)
  /\ UNCHANGED <<addrString, maskString, address, mask, subnetMask, octets>>
  /\ UNCHANGED cliVars

NextNet == CallNewNetwork \/ CallCreateSubnets

SpecNet == InitNet /\ [][NextNet]_vars

----------------------------------------------------------------------------
(* Inputs of the codec.                                                    *)

\* The decimal text of n in 0..999, as the inputs are written.
DecimalText(n) ==
  IF n < 10 THEN <<DigitChars[n + 1]>>
  ELSE IF n < 100 THEN <<DigitChars[(n \div 10) + 1], DigitChars[(n % 10) + 1]>>
  ELSE <<DigitChars[(n \div 100) + 1], DigitChars[((n \div 10) % 10) + 1],
         DigitChars[(n % 10) + 1]>>

\* The text "o0.o1.o2.o3" of four octets.
DottedQuad(o) ==
  DecimalText(o[1]) \o <<".">> \o DecimalText(o[2]) \o <<".">>
    \o DecimalText(o[3]) \o <<".">> \o DecimalText(o[4])

\* o0<<24 | o1<<16 | o2<<8 | o3
ShiftOr(o) == U32(o[1] * 256 + o[2], o[3] * 256 + o[4])

\* The text "/N".
SlashText(n) == <<"/">> \o DecimalText(n)

OctetValues == {0, 1, 9, 10, 99, 100, 168, 192, 255}

OctetQuads == { <<a, b, c, d>> : a, b, c, d \in OctetValues }

AddrTokens ==
  { <<>>, <<"0">>, <<"2", "5", "5">>, <<"2", "5", "6">>, <<"-", "4">>,
    <<"1", "a">> }

\* The tokens joined by dots.
RECURSIVE Join(_)
Join(tokens) ==
  IF Len(tokens) = 1 THEN tokens[1]
  ELSE tokens[1] \o <<".">> \o Join(Tail(tokens))

TokenTexts ==
  UNION { { Join(t) : t \in [1..n -> AddrTokens] } : n \in 1..MaxTokens }

AddrTexts ==
  { <<"1", "9", "2", ".", "1", "6", "8", ".", "0", ".", "1">>,
    <<"2", "5", "6", ".", "1", "6", "8", ".", "0", ".", "1">>,
    <<"-", "4">>,
    <<"0", "0", "7", ".", "1", ".", "1", ".", "1">>,
    <<"+", "1", ".", "2", ".", "3", ".", "4">>,
    <<"1", ".", "2", ".", "3", ".", "0", "2", "5", "6">>,
    <<"9", "9", "9", "9", "9", "9", "9", "9", "9", "9", "9", "9", "9", "9", "9", "9", "9", "9", "9", "9", "9", "9", "9", ".", "1", ".", "1", ".", "1">>,
    <<"1", "8", "4", "4", "6", "7", "4", "4", "0", "7", "3", "7", "0", "9", "5", "5", "1", "6", "1", "5", ".", "1", ".", "1", ".", "1">>,
    <<"1", ".", "2", ".", "3", ".", "1", "8", "4", "4", "6", "7", "4", "4", "0", "7", "3", "7", "0", "9", "5", "5", "1", "6", "1", "6">>,
    <<"1", ".", "2", ".", "3", ".", "4", "a">>,
    <<"1", ".", "-", "2", ".", "3", "0", "0", ".", "4">>,
    <<"1", ".", "3", "0", "0", ".", "-", "2", ".", "4">>,
    <<"1", ".", "2", ".", "3", ".">>,
    <<"1", " ", ".", "2", ".", "3", ".", "4">>,
    <<"9", "9", "9", "9", "9", "9", "9", "9", "9", "9", "9", "9", "9", "9", "9", "9", "9", "9", "9", "9", "9", "9", "9", "a", ".", "1", ".", "1", ".", "1">>,
    <<"1", ".", "2", ".", "3", ".", "1", "8", "4", "4", "6", "7", "4", "4", "0", "7", "3", "7", "0", "9", "5", "5", "1", "6", "1", "6", "-">>,
    <<"1", ".", "2", ".", "3", ".", "1", "8", "4", "4", "6", "7", "4", "4", "0", "7", "3", "7", "0", "9", "5", "5", "1", "6", "1", "a">> }

AddrStrings == TokenTexts \cup AddrTexts

MaskTexts ==
  { <<>>,
    <<"/">>,
    <<"5">>,
    <<"/", "a">>,
    <<"/", "-", "1">>,
    <<"/", "+", "1">>,
    <<"/", " ", "8">>,
    <<"/", "2", "4", "a">>,
    <<"/", "0", "3", "2">>,
    <<"/", "_", "1">>,
    <<"/", "1", "_", "6">>,
    <<"/", "4", "2", "9", "4", "9", "6", "7", "2", "9", "5">>,
    <<"/", "4", "2", "9", "4", "9", "6", "7", "2", "9", "6">>,
    <<"/", "9", "9", "9", "9", "9", "9", "9", "9", "9", "9", "9", "9", "9", "9", "9", "9", "9", "9", "9", "9", "9", "9", "9">>,
    <<"1", ".", "2", ".", "3">>,
    <<"1", ".", "2", ".", "3", ".", "4", ".", "5">>,
    <<"2", "5", "6", ".", "0", ".", "0", ".", "0">>,
    <<"2", "5", "5", ".", "2", "5", "5", ".", "2", "5", "5">>,
    <<"2", "5", "5", ".", "2", "5", "5", ".", "2", "5", "5", ".">>,
    <<"a", ".", "b", ".", "c", ".", "d">>,
    <<"0", ".", "2", "5", "5", ".", "0", ".", "0">>,
    <<"1", ".", ".", "2", ".", "3">>,
    <<"2", "5", "5", ".", "2", "5", "5", ".", "2", "5", "5", ".", "0", "x">>,
    <<"1", ".", "2", ".", "3", ".", "2", "5", "6">>,
    <<"1", ".", "2", ".", "3", ".", "-", "4">>,
    <<"1", "2">>,
    <<"-", "1">> }

MaskStrings ==
  { SlashText(n) : n \in 0..MaxPrefixText }
    \cup { DottedQuad(<<a, b, c, d>>) : a, b, c, d \in {0, 128, 254, 255} }
    \cup MaskTexts

----------------------------------------------------------------------------
(* The codec applied to every input.                                       *)

InitCodec ==
  /\ pc = "start"
  /\ mask = U32(0, 0)
  /\ subnetMask = U32(0, 0)
  /\ ret = NoResult
  /\ NoProcess
  /\ \/ /\ addrString \in AddrStrings
        /\ octets = <<>>
        /\ maskString = NoString
        /\ address = U32(0, 0)
     \/ /\ octets \in OctetQuads
        /\ addrString = DottedQuad(octets)
        /\ maskString = NoString
        /\ address = ShiftOr(octets)
     \/ /\ maskString \in MaskStrings
        /\ addrString = NoString
        /\ octets = <<>>
        /\ address = U32(0, 0)

CallIPv4ToInt ==
  /\ pc = "start"
  /\ pc' = "IPv4ToInt"
  /\ ret' = IPv4ToInt(addrString)
  /\ UNCHANGED <<addrString, maskString, address, mask, subnetMask, octets>>
  /\ UNCHANGED cliVars

CallParseMask ==
  /\ pc = "start"
  /\ pc' = "ParseMask"
  /\ ret' \in ParseMask(maskString)
  /\ UNCHANGED <<addrString, maskString, address, mask, subnetMask, octets>>
  /\ UNCHANGED cliVars

CallDots ==
  /\ pc = "start"
  /\ pc' = "Dots"
  /\ ret' = [text |-> Dots(address)]
  /\ UNCHANGED <<addrString, maskString, address, mask, subnetMask, octets>>
  /\ UNCHANGED cliVars

NextCodec == CallIPv4ToInt \/ CallParseMask \/ CallDots

SpecCodec == InitCodec /\ [][NextCodec]_vars

----------------------------------------------------------------------------
(* The command line program run on every command line.                     *)

\* Words written before the positional arguments.
FlagWords ==
  { <<>>,
    << <<"-", "e">> >>,
    << <<"-", "c">> >>,
    << <<"-", "e">>, <<"-", "c">> >>,
    << <<"-", "-", "e">> >>,
    << <<"-", "x">> >>,
    << <<"-", "h">> >>,
    << <<"-", "-">> >>,
    << <<"-", "e">>, <<"-", "-">> >>,
    << <<"-", "-", "-", "e">> >> }

\* Texts given as the address.
AddressWords ==
  { <<"1", "9", "2", ".", "1", "6", "8", ".", "0", ".", "1">>,
    <<"1", "9", "2", ".", "1", "6", "8", ".", "0", ".", "2", "0", "0">>,
    <<"1", "0", ".", "0", ".", "0", ".", "0">>,
    <<"2", "5", "5", ".", "2", "5", "5", ".", "2", "5", "5", ".", "2", "5", "5">>,
    <<"1", ".", "2", ".", "3">>,
    <<"1", ".", "2", ".", "3", ".", "4", ".", "5">>,
    <<"2", "5", "6", ".", "1", ".", "1", ".", "1">>,
    <<"1", ".", "a", ".", "3", ".", "4">>,
    <<"-", "4">>,
    <<>> }

\* Texts given as the mask of the network.
MaskWords ==
  { SlashText(24), SlashText(30), SlashText(31), SlashText(32),
    SlashText(33),
    DottedQuad(<<255, 255, 255, 0>>),
    DottedQuad(<<255, 0, 255, 0>>),
    <<"/", "x">>,
    <<"2", "4">>,
    <<"1", ".", "2", ".", "3">> }

\* Texts given as the mask of the subnets.
SubnetMaskWords ==
  { SlashText(24), SlashText(25), SlashText(26), SlashText(32),
    SlashText(16),
    DottedQuad(<<255, 255, 255, 128>>),
    <<"/", "x">>,
    <<"1", ".", "2", ".", "3">> }

\* The positional arguments: none, one, two, three or four of them.
PositionalWords ==
  { <<>> }
    \cup { <<a>> : a \in AddressWords }
    \cup { <<a, m>> : a \in AddressWords, m \in MaskWords }
    \cup { <<a, m, s>> : a \in AddressWords, m \in MaskWords,
                         s \in SubnetMaskWords }
    \cup { <<a, m, s, s>> : a \in {DottedQuad(<<10, 0, 0, 0>>)},
                            m \in {SlashText(24)},
                            s \in {SlashText(25)} }

CommandLines == { f \o p : f \in FlagWords, p \in PositionalWords }

\* The process at the entry of main: extended, the flags at their defaults.
InitMain ==
  /\ pc = "main"
  /\ cmdline \in CommandLines
  /\ flags = [e |-> FALSE, c |-> FALSE]
  /\ args = <<>>
  /\ stdout = <<>>
  /\ exitCode = NotExited
  /\ addrString = NoString
  /\ maskString = NoString
  /\ address = U32(0, 0)
  /\ mask = U32(0, 0)
  /\ subnetMask = U32(0, 0)
  /\ octets = <<>>
  /\ ret = NoResult

NextMain ==
  \/ MainFlagParse
  \/ MainArgCount
  \/ MainIPv4ToInt
  \/ MainParseMask
  \/ MainPrint
  \/ MainParseSubnetMask
  \/ MainCreateSubnets
  \/ MainPrintSubnets

SpecMain == InitMain /\ [][NextMain]_vars

----------------------------------------------------------------------------
(* Claims about the descriptor and the partitioner, checked under SpecNet. *)

Returned == pc = "CreateSubnets"
ReturnedList == Returned /\ ret.err = Nil
List == ret.subnets.elems
Prefix == OnesCount32(mask)
SubnetPrefix == OnesCount32(subnetMask)
One == U32(0, 1)

\* C1: in every list CreateSubnets returns without error, each entry's
\* broadcast plus one (32-bit arithmetic) is the next entry's address.
C1_Contiguity ==
  ReturnedList =>
    \A i \in 1..(Len(List) - 1) :
      U32Add(List[i].broadcast, One) = List[i + 1].address

\* A list of eight entries whose sixth address wrapped around 2^32.
C1_Witness ==
  /\ ReturnedList
  /\ Len(List) = 8
  /\ \E i \in 1..7 : List[i].broadcast = Octets(255, 255, 255, 255)

\* The address range of the parent network and the ranges of the entries.
ParentNetwork == U32And(address, mask)
ParentBroadcast == U32Add(ParentNetwork, U32Not(mask))
Disjoint(a, b) ==
  U32Less(a.broadcast, b.network) \/ U32Less(b.broadcast, a.network)
NonOverlapping ==
  \A i, j \in 1..Len(List) : i # j => Disjoint(List[i], List[j])
\* Pairwise disjoint ranges inside [lo, hi] have the union [lo, hi] exactly
\* when one of them starts at lo and each of them ends at hi or is followed
\* immediately by another one.
CoversParent ==
  /\ \A i \in 1..Len(List) :
       /\ U32Leq(List[i].network, List[i].broadcast)
       /\ U32Leq(ParentNetwork, List[i].network)
       /\ U32Leq(List[i].broadcast, ParentBroadcast)
       /\ \/ List[i].broadcast = ParentBroadcast
          \/ \E j \in 1..Len(List) :
               List[j].network = U32Add(List[i].broadcast, One)
  /\ \E i \in 1..Len(List) : List[i].network = ParentNetwork

\* C2: for contiguous masks with the child prefix strictly longer than the
\* parent prefix, the returned list is non-overlapping and covers exactly
\* the parent's address range, whatever host bits the address has set.
C2_CoversParentRange ==
  (/\ Returned
   /\ mask \in ContiguousMasks
   /\ subnetMask \in ContiguousMasks
   /\ SubnetPrefix > Prefix)
  => (ret.err = Nil /\ NonOverlapping /\ CoversParent)

\* C3: whenever the child mask has strictly more set bits than the parent
\* mask, CreateSubnets succeeds with exactly 2^(childPrefix - parentPrefix)
\* entries, each carrying the child mask.
C3_SubnetCount ==
  (Returned /\ SubnetPrefix > Prefix) =>
    /\ ret.err = Nil
    /\ ~ret.subnets.isNil
    /\ Len(List) = 2 ^ (SubnetPrefix - Prefix)
    /\ \A i \in 1..Len(List) : List[i].mask = subnetMask

\* Eight entries under a non-contiguous parent mask.
C3_Witness ==
  /\ Returned
  /\ mask \in NonContiguousMasks
  /\ SubnetPrefix = Prefix + 3
  /\ Len(List) = 8
  /\ ret.err = Nil

\* C4: whenever the child prefix length is at most the parent prefix length,
\* getSubnetCount fails with PrefixTooSmall and CreateSubnets returns that
\* error unchanged together with a nil list.
C4_PrefixTooSmall ==
  (Returned /\ SubnetPrefix <= Prefix) =>
    /\ getSubnetCount(Prefix, SubnetPrefix).err = ErrPrefixTooSmall
    /\ ret.err = ErrPrefixTooSmall
    /\ ret.subnets.isNil

\* Equal prefix lengths of two different masks.
C4_Witness ==
  /\ Returned
  /\ SubnetPrefix = Prefix
  /\ subnetMask # mask
  /\ ret.err = ErrPrefixTooSmall

Ordered(n) ==
  /\ U32Leq(n.network, n.hostMin)
  /\ U32Leq(n.hostMin, n.hostMax)
  /\ U32Leq(n.hostMax, n.broadcast)

\* C5 as stated: every descriptor built by NewNetwork from any two 32-bit
\* values, the /31 and /32 masks included, has
\* network <= hostMin <= hostMax <= broadcast.
C5_OrderedAlways == pc = "NewNetwork" => Ordered(ret.network)

\* C5 amended: the ordering holds for every address and every mask other
\* than 0xFFFFFFFF (/32) and 0xFFFFFFFE (/31).
C5_OrderedBelow31 ==
  (/\ pc = "NewNetwork"
   /\ mask # Octets(255, 255, 255, 255)
   /\ mask # Octets(255, 255, 255, 254))
  => Ordered(ret.network)

\* The /30 network at the top of the address space.
C5_Witness ==
  /\ pc = "NewNetwork"
  /\ mask = TopBitsMask(30)
  /\ ret.network.broadcast = Octets(255, 255, 255, 255)
  /\ ret.network.hostMin = Octets(255, 255, 255, 253)

----------------------------------------------------------------------------
(* Claims about the codec, checked under SpecCodec.                        *)

\* A non-empty text of decimal digits.
AllDigits(t) == t # <<>> /\ \A i \in 1..Len(t) : IsDigit(t[i])

RECURSIVE StripZeros(_)
StripZeros(t) ==
  IF Len(t) > 1 /\ t[1] = "0" THEN StripZeros(Tail(t)) ELSE t

\* The number a text of at most three digits denotes.
RECURSIVE SmallValue(_)
SmallValue(t) ==
  IF t = <<>> THEN 0
  ELSE 10 * SmallValue(SubSeq(t, 1, Len(t) - 1)) + DigitValue(t[Len(t)])

\* The digits t denote a number that is at most bound (bound < 1000).
DecimalAtMost(t, bound) ==
  LET z == StripZeros(t)
  IN  Len(z) <= 3 /\ SmallValue(z) <= bound

\* C6: for every N in 0..32, ParseMask("/N") succeeds with the 32-bit value
\* whose top N bits are 1 and whose other bits are 0, and ParseMask of the
\* dotted-quad text of that value returns the same integer.
C6_PrefixMask ==
  pc = "ParseMask" =>
    \A n \in 0..32 :
      maskString = SlashText(n) =>
        /\ ret = Return(TopBitsMask(n), Nil)
        /\ ParseMask(Dots(ret.val)) = { Return(ret.val, Nil) }

\* "/32" parsed to 0xFFFFFFFF.
C6_Witness ==
  /\ pc = "ParseMask"
  /\ maskString = <<"/", "3", "2">>
  /\ ret = Return(Octets(255, 255, 255, 255), Nil)

\* The two accepted forms of a mask text.
IsPrefixForm(s) ==
  /\ Len(s) >= 2
  /\ s[1] = "/"
  /\ AllDigits(Tail(s))
  /\ DecimalAtMost(Tail(s), 32)
IsDottedForm(s) ==
  LET t == Split(s)
  IN  Len(t) = 4 /\ \A i \in 1..4 : AllDigits(t[i])

\* C7: ParseMask fails with MaskParse, and returns no mask value, for every
\* input that is neither "/" followed by a decimal integer in [0,32] nor a
\* four-field dotted quad.
C7_MaskParseOnInvalid ==
  (pc = "ParseMask" /\ ~IsPrefixForm(maskString) /\ ~IsDottedForm(maskString))
  => ret = Return(U32(0, 0), ErrMaskParse)

\* C8: IPv4ToInt returns the InvalidSyntax error for every input whose split
\* on "." yields a token count other than 4; it never returns a value or
\* aborts for such input.
C8_TokenCountRejected ==
  (pc = "IPv4ToInt" /\ Len(Split(addrString)) # 4)
  => ret = Return(U32(0, 0), ErrInvalidSyntax)

\* A token is a decimal integer in [0,255], a decimal integer above 255, or
\* neither (empty, signed, or with a character that is no digit).
TokenClass(t) ==
  IF ~AllDigits(t) THEN "syntax"
  ELSE IF DecimalAtMost(t, 255) THEN "octet"
  ELSE "range"

\* C9: for a four-token input the first token that is not a decimal integer
\* in [0,255] decides the result: OutOfRange with value 0 if it is a decimal
\* integer above 255, InvalidSyntax with value 0 otherwise; with no such
\* token there is no error.
C9_FirstBadTokenDecides ==
  (pc = "IPv4ToInt" /\ Len(Split(addrString)) = 4) =>
    LET t == Split(addrString)
        bad == { i \in 1..4 : TokenClass(t[i]) # "octet" }
        first == CHOOSE i \in bad : \A j \in bad : i <= j
    IN  IF bad = {} THEN ret.kind = "return" /\ ret.err = Nil
        ELSE IF TokenClass(t[first]) = "range"
        THEN ret = Return(U32(0, 0), ErrOutOfRange)
        ELSE ret = Return(U32(0, 0), ErrInvalidSyntax)

\* An out-of-range third token followed by a malformed fourth token.
C9_Witness ==
  /\ pc = "IPv4ToInt"
  /\ Len(Split(addrString)) = 4
  /\ TokenClass(Split(addrString)[1]) = "octet"
  /\ TokenClass(Split(addrString)[2]) = "octet"
  /\ TokenClass(Split(addrString)[3]) = "range"
  /\ TokenClass(Split(addrString)[4]) = "syntax"
  /\ ret = Return(U32(0, 0), ErrOutOfRange)

\* C10: for every four octets o0..o3, IPv4ToInt("o0.o1.o2.o3") is
\* o0<<24 | o1<<16 | o2<<8 | o3 and Dots of that result is "o0.o1.o2.o3";
\* and for every 32-bit value x, IPv4ToInt(Dots(x)) is x.
C10_RoundTrip ==
  /\ (pc = "IPv4ToInt" /\ octets # <<>>) =>
       /\ addrString = DottedQuad(octets)
       /\ ret = Return(ShiftOr(octets), Nil)
       /\ Dots(ret.val) = addrString
  /\ pc = "Dots" => IPv4ToInt(ret.text) = Return(address, Nil)

\* "192.168.0.1" parsed to 3232235521.
C10_Witness ==
  /\ pc = "IPv4ToInt"
  /\ octets = <<192, 168, 0, 1>>
  /\ addrString = <<"1", "9", "2", ".", "1", "6", "8", ".", "0", ".", "1">>
  /\ ret = Return(U32(49320, 1), Nil)

----------------------------------------------------------------------------
(* Claims about the command line program, checked under SpecMain.          *)

Exited == pc = "exited"

\* The positional arguments of the command line.
Positional == FlagParse(cmdline).args

\* Every flag of the command line is one of -e and -c.
FlagsDefined == FlagParse(cmdline).exits = {}

\* The run meets one of the errors: the count of positional arguments is
\* not 2 or 3, the address, the mask or the subnet mask is not parsed, or
\* the subnets are not created.  mask and subnetMask hold the parsed masks
\* once their steps have run.
RunFails ==
  \/ Len(Positional) < 2
  \/ Len(Positional) > 3
  \/ IPv4ToInt(Positional[1]).err # Nil
  \/ \A r \in ParseMask(Positional[2]) : r.err # Nil
  \/ /\ Len(Positional) = 3
     /\ \/ \A r \in ParseMask(Positional[3]) : r.err # Nil
        \/ getSubnetCount(OnesCount32(mask), OnesCount32(subnetMask)).err # Nil

\* C11: a run of the program on a command line with the flags -e and -c
\* only ends with exit code 1 if the count of positional arguments is not
\* 2 or 3, or the address, the mask or the subnet mask fails to parse, or
\* the creation of the subnets fails, and with exit code 0 otherwise; it
\* ends in no other way.
C11_ExitCode ==
  (Exited /\ FlagsDefined) =>
    /\ exitCode \in {0, 1}
    /\ exitCode = 1 <=> RunFails

\* The lines of the reports written by IPv4Address.Print.
AddressLines == { i \in 1..Len(stdout) : stdout[i].kind = "address" }

\* C12: every address line of the report of the base network and of the
\* report of every subnet has the three fields label, dotted quad and
\* binary bits if the flag -e was given, and the two fields label and
\* dotted quad if it was not.
C12_BitsIffFlag ==
  \A i \in AddressLines :
    /\ flags.e => stdout[i].fields =
         <<stdout[i].fields[1], stdout[i].fields[2],
           Bits(IPv4ToInt(stdout[i].fields[2]).val)>>
    /\ ~flags.e => Len(stdout[i].fields) = 2

====
